---- MODULE Spec2Model ----
(***************************************************************************)
(* A model of the HTTP/1.1 server of this repository: the request parser   *)
(* (parseHTTPRequest), the route dispatcher (handleGETRequest,             *)
(* handlePOSTRequest), the response encoder (ByteResponse, SafeEncode,     *)
(* Encode) and the connection workers (listen, handleConnection,           *)
(* readFromConnection).  Byte slices and Go strings are TLA+ strings, one  *)
(* character per byte.                                                     *)
(***************************************************************************)
EXTENDS Integers, Sequences, FiniteSets, TLC

VARIABLES
    pin,        \* parser harness: the parts the client assembled the buffer from
    pmsg,       \* parser harness: the buffer handed to parseHTTPRequest
    pres,       \* parser harness: what parseHTTPRequest returned
    rreq,       \* dispatcher harness: the parsed request handed to the handler
    rout,       \* dispatcher harness: what the handler did
    heap,       \* encoder harness: the httpResponse objects; heap[0] is the shared one
    calls,      \* encoder harness: per caller, its ByteResponse call in progress
    alive,      \* the process: "running", "panicked" (a goroutine panicked) or "exited"
    conns,      \* per connection slot: the client's bytes and the worker's position
    files,      \* the served directory: file name -> contents
    puts,       \* per file name, the body of the last acknowledged upload
    accepts     \* connections accepted so far

parserVars == <<pin, pmsg, pres>>
routeVars == <<rreq, rout>>
codecVars == <<heap, calls>>
serverVars == <<alive, conns, files, puts, accepts>>
vars == <<pin, pmsg, pres, rreq, rout, heap, calls, alive, conns, files, puts, accepts>>

(***************************************************************************)
(* Bounds                                                                  *)
(***************************************************************************)
MaxHeaders == 2     \* header lines per generated request in the parser harness
MaxDeclared == 5    \* the largest declared length the parser properties look for
MaxCode == 999      \* the largest status code the fallback is looked up for
MaxCallers == 2     \* concurrent callers of ByteResponse in the encoder harness
MaxConns == 2       \* connections open at the same time
MaxAccepts == 2     \* connections accepted in one run
SegLen == 20        \* bytes of a request the transport may deliver ahead of the rest
\* Scaled: the code reads into a 1024-byte buffer and caps a message at 1 << 30
\* bytes; the model keeps the order (messages below, between and above the two)
BufLen == 64
maxMessageSize == 128

(***************************************************************************)
(* Go library functions the code calls                                     *)
(***************************************************************************)
CRLF == "\r\n"

\* a []byte or nil: <<>> is the nil slice, <<b>> a slice holding the bytes b
NilBody == <<>>
Some(b) == <<b>>
Bytes(body) == IF body = NilBody THEN "" ELSE body[1]

\* The({e(x) : x \in {v}}) is LET x == v IN e(x) with v computed once
The(S) == CHOOSE x \in S : TRUE

\* the first position from i on at which sep occurs in s; 0 when there is none
RECURSIVE IndexFrom(_, _, _)
IndexFrom(s, sep, i) ==
    IF i + Len(sep) - 1 > Len(s) THEN 0
    ELSE IF SubSeq(s, i, i + Len(sep) - 1) = sep THEN i
    ELSE IndexFrom(s, sep, i + 1)

\* strings.Index, 1-based; 0 when sep does not occur in s
Index(s, sep) == IndexFrom(s, sep, 1)

\* strings.SplitN for n > 0: at most n pieces, the last one the unsplit rest
RECURSIVE SplitN(_, _, _)
SplitN(s, sep, n) ==
    IF n = 1 THEN <<s>>
    ELSE The({IF i = 0 THEN <<s>>
              ELSE <<SubSeq(s, 1, i - 1)>>
                       \o SplitN(SubSeq(s, i + Len(sep), Len(s)), sep, n - 1) :
              i \in {Index(s, sep)}})

UpperCase == "ABCDEFGHIJKLMNOPQRSTUVWXYZ"
LowerCase == "abcdefghijklmnopqrstuvwxyz"

LowerChar(c) ==
    LET i == Index(UpperCase, c)
    IN  IF i = 0 THEN c ELSE SubSeq(LowerCase, i, i)

\* strings.ToLower
RECURSIVE ToLower(_)
ToLower(s) == IF s = "" THEN "" ELSE LowerChar(Head(s)) \o ToLower(Tail(s))

Digits == "0123456789"
DigitVal(c) == Index(Digits, c) - 1

RECURSIVE DecVal(_, _)
DecVal(s, acc) == IF s = "" THEN acc ELSE DecVal(Tail(s), 10 * acc + DigitVal(Head(s)))

\* strconv.Atoi: an optional sign, then one or more decimal digits
Atoi(s) ==
    LET signed == s # "" /\ Head(s) \in {"+", "-"}
        body   == IF signed THEN Tail(s) ELSE s
        ok     == body # "" /\ \A i \in 1..Len(body) : DigitVal(SubSeq(body, i, i)) >= 0
    IN  IF ~ok THEN [err |-> "invalid syntax", num |-> 0]
        ELSE [err |-> "",
              num |-> IF signed /\ Head(s) = "-" THEN 0 - DecVal(body, 0) ELSE DecVal(body, 0)]

\* fmt.Sprintf("%d", n)
RECURSIVE Itoa(_)
Itoa(n) ==
    IF n < 0 THEN "-" \o Itoa(0 - n)
    ELSE IF n < 10 THEN SubSeq(Digits, n + 1, n + 1)
    ELSE Itoa(n \div 10) \o SubSeq(Digits, (n % 10) + 1, (n % 10) + 1)

(***************************************************************************)
(* readLine: one line off the front of the unread bytes.  bufio.ReadLine   *)
(* ends a line at "\n" and drops the "\n" or "\r\n"; unterminated bytes    *)
(* before the end of the stream are a line too; only an empty stream is    *)
(* io.EOF.  The loop of readLine joins the pieces of a line longer than    *)
(* the bufio buffer, so the line comes back whole.                         *)
(***************************************************************************)
readLine(data) ==
    IF data = "" THEN [line |-> "", rest |-> "", err |-> "EOF"]
    ELSE The({IF i = 0 THEN [line |-> data, rest |-> "", err |-> ""]
              ELSE [line |-> IF i > 1 /\ SubSeq(data, i - 1, i - 1) = "\r"
                             THEN SubSeq(data, 1, i - 2)
                             ELSE SubSeq(data, 1, i - 1),
                    rest |-> SubSeq(data, i + 1, Len(data)),
                    err  |-> ""] :
              i \in {Index(data, "\n")}})

(***************************************************************************)
(* httpRequest and parseHTTPRequest                                        *)
(***************************************************************************)
\* the zero value of the struct: req is a named result, never initialised
ZeroRequest ==
    [Line |-> "", Body |-> NilBody, Method |-> "", Target |-> "", HTTPVersion |-> "",
     Host |-> "", UserAgent |-> "", Accept |-> "", ContentType |-> "",
     ContentLength |-> 0, AcceptEncoding |-> ""]

KnownHeaders ==
    {"host", "user-agent", "accept", "content-type", "content-length", "accept-encoding"}

\* the switch over the lower-cased header name; value is parts[1]
setHeader(req, name, value) ==
    CASE name = "host"            -> [req EXCEPT !.Host = value]
      [] name = "user-agent"      -> [req EXCEPT !.UserAgent = value]
      [] name = "accept"          -> [req EXCEPT !.Accept = value]
      [] name = "content-type"    -> [req EXCEPT !.ContentType = value]
      [] name = "content-length"  ->
            [req EXCEPT !.ContentLength =
                IF Atoi(value).err # "" THEN -1 ELSE Atoi(value).num]
      [] name = "accept-encoding" -> [req EXCEPT !.AcceptEncoding = value]
      [] OTHER                    -> req

\* the header loop: "ok" at the blank line, "error" when readLine fails,
\* "panic" when a recognised name has no ": " (parts[1] is out of range)
RECURSIVE parseHeaders(_, _)
parseHeaders(req, data) ==
    The({IF r.err # "" THEN [outcome |-> "error", req |-> req, rest |-> r.rest]
         ELSE IF r.line = "" THEN [outcome |-> "ok", req |-> req, rest |-> r.rest]
         ELSE The({IF name \in KnownHeaders /\ Len(parts) < 2
                   THEN [outcome |-> "panic", req |-> req, rest |-> r.rest]
                   ELSE IF name \in KnownHeaders
                   THEN parseHeaders(setHeader(req, name, parts[2]), r.rest)
                   ELSE parseHeaders(req, r.rest) :
                   parts \in {SplitN(r.line, ": ", 2)}, name \in {ToLower(SplitN(r.line, ": ", 2)[1])}}) :
         r \in {readLine(data)}})

\* parseBody with a short read taken as the body
parseBodyShortRead(req, data) ==
    IF req.ContentLength # -1
    THEN IF req.ContentLength < 0
         THEN [outcome |-> "panic", req |-> req]
         ELSE IF Len(data) < req.ContentLength
         THEN [outcome |-> "ok", req |-> [req EXCEPT !.Body = Some(data)]]
         ELSE [outcome |-> "ok",
               req |-> [req EXCEPT !.Body = Some(SubSeq(data, 1, req.ContentLength))]]
    ELSE LET r == readLine(data)
         IN  IF r.err = "" THEN [outcome |-> "ok", req |-> [req EXCEPT !.Body = Some(r.line)]]
             ELSE [outcome |-> "ok", req |-> req]

\* the body step: io.ReadFull of ContentLength bytes, or one more line
parseBody(req, data) ==
    IF req.ContentLength # -1
    THEN IF req.ContentLength < 0
         THEN [outcome |-> "panic", req |-> req]      \* make([]byte, n) with n < 0
         ELSE IF Len(data) < req.ContentLength
         THEN [outcome |-> "error", req |-> req]
         ELSE [outcome |-> "ok",
               req |-> [req EXCEPT !.Body = Some(SubSeq(data, 1, req.ContentLength))]]
    ELSE LET r == readLine(data)
         IN  IF r.err = "" THEN [outcome |-> "ok", req |-> [req EXCEPT !.Body = Some(r.line)]]
             ELSE [outcome |-> "ok", req |-> req]     \* the only error of a byte reader is EOF

parseHTTPRequest(message) ==
    The({IF first.err # "" THEN [outcome |-> "error", req |-> ZeroRequest]
         ELSE The({IF Len(parts) < 3
                   THEN [outcome |-> "error", req |-> [ZeroRequest EXCEPT !.Line = first.line]]
                   ELSE The({IF hdr.outcome # "ok"
                             THEN [outcome |-> hdr.outcome, req |-> hdr.req]
                             ELSE parseBody(hdr.req, hdr.rest) :
                             hdr \in {parseHeaders(
                                 [ZeroRequest EXCEPT !.Line = first.line, !.Method = parts[1],
                                      !.Target = parts[2], !.HTTPVersion = parts[3]],
                                 first.rest)}}) :
                   parts \in {SplitN(first.line, " ", 3)}}) :
         first \in {readLine(message)}})

(***************************************************************************)
(* httpResponse and the response encoder                                   *)
(***************************************************************************)
ZeroResponse ==
    [ResponseCode |-> 0, ContentType |-> "", EncodingMethod |-> "", Encoded |-> FALSE,
     Body |-> NilBody]

\* the table filled by init()
statusLines ==
    [c \in {200, 201, 400, 404, 500, 501} |->
        CASE c = 501 -> "HTTP/1.1 501 Not Implemented"
          [] c = 500 -> "HTTP/1.1 500 Internal Server Error"
          [] c = 404 -> "HTTP/1.1 404 Not Found"
          [] c = 400 -> "HTTP/1.1 400 Bad Request"
          [] c = 200 -> "HTTP/1.1 200 OK"
          [] c = 201 -> "HTTP/1.1 201 Created"]

\* getStatusLine without the ok test: a missing key gives the map's zero value
getStatusLineNoFallback(code) ==
    (IF code \in DOMAIN statusLines THEN statusLines[code] ELSE "") \o CRLF

getStatusLine(code) ==
    IF code \in DOMAIN statusLines
    THEN statusLines[code] \o CRLF
    ELSE "HTTP/1.1 500 Internal Server Error\r\n"

\* Encode taking every label for a supported one
EncodeAnyLabel(resp) ==
    IF resp.Body = NilBody \/ resp.EncodingMethod = ""
    THEN [resp |-> resp, err |-> ""]
    ELSE [resp |-> [resp EXCEPT !.Encoded = TRUE], err |-> ""]

\* Encode works on the object it is called on: the object afterwards, and err
Encode(resp) ==
    IF resp.Body = NilBody \/ resp.EncodingMethod = ""
    THEN [resp |-> resp, err |-> ""]
    ELSE IF resp.EncodingMethod = "gzip"
    THEN [resp |-> [resp EXCEPT !.Encoded = TRUE], err |-> ""]
    ELSE [resp |-> [resp EXCEPT !.EncodingMethod = "", !.Encoded = FALSE],
          err  |-> "UnsupportedEncodingError"]

\* the object SafeEncode builds from its receiver: make([]byte, len(resp.Body))
\* is a non-nil slice also when resp.Body is nil
DeepCopy(resp) == [resp EXCEPT !.Body = Some(Bytes(resp.Body))]

SafeEncode(resp) == Encode(DeepCopy(resp))

GetContentLength(resp) == IF resp.Body = NilBody THEN 0 ELSE Len(Bytes(resp.Body))

\* the headers map of ByteResponse, as a set of <<key, value>>
Headers(resp) ==
    IF resp.Body = NilBody THEN {}
    ELSE (IF resp.Encoded THEN {<<"Content-Encoding", resp.EncodingMethod>>} ELSE {})
         \cup (IF resp.ContentType # "" THEN {<<"Content-Type", resp.ContentType>>} ELSE {})
         \cup {<<"Content-Length", Itoa(GetContentLength(resp))>>}

\* the orders in which "for key, value := range headers" can visit the map:
\* Go leaves the iteration order of a map unspecified
RangeOrders(hs) ==
    {o \in [1..Cardinality(hs) -> hs] : \A i, j \in 1..Cardinality(hs) : o[i] = o[j] => i = j}

RECURSIVE HeaderBytes(_, _)
HeaderBytes(o, i) ==
    IF i > Len(o) THEN ""
    ELSE o[i][1] \o ": " \o o[i][2] \o CRLF \o HeaderBytes(o, i + 1)

\* the bytes ByteResponse assembles from the encoded object, one per order
Assemble(resp) ==
    {getStatusLine(resp.ResponseCode) \o HeaderBytes(o, 1) \o CRLF \o Bytes(resp.Body) :
        o \in RangeOrders(Headers(resp))}

\* ByteResponse(mutate) on the object resp: the receiver afterwards (changed
\* only when mutate), the object that was serialized, the bytes it can
\* return and err.  Encode has no fatal error, so bytes are always returned.
ByteResponse(resp, mutate) ==
    The({[recv  |-> IF mutate THEN e.resp ELSE resp,
          sent  |-> e.resp,
          bytes |-> Assemble(e.resp),
          err   |-> e.err] :
         e \in {IF mutate THEN Encode(resp) ELSE SafeEncode(resp)}})

(***************************************************************************)
(* The route dispatcher.  The served directory is a map from file name to  *)
(* contents; fault is what the file system does to this request: "none",   *)
(* or an I/O error in "stat", "read" or "write".                           *)
(***************************************************************************)
FsFaults == {"none", "stat", "read", "write"}

\* a handler's result: it returned ("ok") or panicked; the response object it
\* built (built), the ByteResponse result (enc), the directory afterwards and
\* the I/O error it met, if any (met)
Returned(built, fs, met) ==
    [outcome |-> "ok", built |-> built, enc |-> ByteResponse(built, TRUE), files |-> fs,
     met |-> met]

Panicked(fs) ==
    [outcome |-> "panic", built |-> ZeroResponse, enc |-> ByteResponse(ZeroResponse, TRUE),
     files |-> fs, met |-> "none"]

\* handleUniversalTargets: only "/" is handled
handleUniversalTargets(req) ==
    [handled  |-> req.Target = "/",
     built    |-> [ZeroResponse EXCEPT !.ResponseCode = 200]]

\* handlePOSTRequest appending to a file that exists
handlePOSTAppending(req, fs, fault) ==
    LET targetParts == SplitN(req.Target, "/", 3)
        old         == IF targetParts[3] \in DOMAIN fs THEN fs[targetParts[3]] ELSE ""
    IN  IF Len(targetParts) = 3 /\ targetParts[2] = "files" /\ fault # "write"
        THEN Returned([ZeroResponse EXCEPT !.ResponseCode = 201],
                      (targetParts[3] :> (old \o Bytes(req.Body))) @@ fs, "none")
        ELSE Returned([ZeroResponse EXCEPT !.ResponseCode = 400], fs, "none")

handlePOSTRequest(req, fs, fault) ==
    LET u           == handleUniversalTargets(req)
        res         == ZeroResponse
        targetParts == SplitN(req.Target, "/", 3)
    IN  IF u.handled THEN Returned(u.built, fs, "none")
        ELSE IF Len(targetParts) < 2
        THEN Returned([res EXCEPT !.ResponseCode = 400,
                                  !.Body = Some("Invalid target structure\n")], fs, "none")
        ELSE IF targetParts[2] = "files"
        THEN IF Len(targetParts) < 3
             THEN Returned([res EXCEPT !.ResponseCode = 400,
                                       !.Body = Some("Invalid files target path\n")], fs, "none")
             ELSE IF fault = "write"
             THEN Returned([res EXCEPT !.ResponseCode = 500], fs, "write")
             ELSE Returned([res EXCEPT !.ResponseCode = 201],
                           (targetParts[3] :> Bytes(req.Body)) @@ fs, "none")
        ELSE Returned([res EXCEPT !.ResponseCode = 400, !.Body = Some("Invalid target")], fs, "none")

handleGETRequest(req, fs, fault) ==
    LET u           == handleUniversalTargets(req)
        res         == [ZeroResponse EXCEPT !.EncodingMethod = req.AcceptEncoding]
        targetParts == SplitN(req.Target, "/", 3)
    IN  IF u.handled THEN Returned(u.built, fs, "none")
        ELSE IF Len(targetParts) < 2
        THEN Returned([res EXCEPT !.ResponseCode = 400,
                                  !.Body = Some("Invalid target structure")], fs, "none")
        ELSE IF targetParts[2] = "echo"
        THEN IF Len(targetParts) < 3
             THEN Panicked(fs)                      \* targetParts[2] is out of range
             ELSE Returned([res EXCEPT !.ResponseCode = 200, !.Body = Some(targetParts[3]),
                                       !.ContentType = "text/plain"], fs, "none")
        ELSE IF targetParts[2] = "user-agent"
        THEN Returned([res EXCEPT !.ResponseCode = 200, !.Body = Some(req.UserAgent),
                                  !.ContentType = "text/plain"], fs, "none")
        ELSE IF targetParts[2] = "files"
        THEN IF Len(targetParts) < 3
             THEN Returned([res EXCEPT !.ResponseCode = 400,
                                       !.Body = Some("Invalid file target structure\n")], fs, "none")
             ELSE IF fault # "stat" /\ targetParts[3] \notin DOMAIN fs
             THEN Returned([res EXCEPT !.ResponseCode = 404], fs, "none")
             ELSE IF fault = "stat"
             THEN Returned([res EXCEPT !.ResponseCode = 500], fs, "stat")
             ELSE IF fault = "read"
             THEN Returned([res EXCEPT !.ResponseCode = 500,
                       !.Body = Some("There was an error reading the requested file\n")], fs, "read")
             ELSE Returned([res EXCEPT !.ResponseCode = 200, !.Body = Some(fs[targetParts[3]]),
                                       !.ContentType = "application/octet-stream"], fs, "none")
        ELSE Returned([res EXCEPT !.ResponseCode = 404], fs, "none")

(***************************************************************************)
(* The server: listen accepts connections and starts one worker           *)
(* (handleConnection) per connection.                                      *)
(***************************************************************************)
Conns == 1..MaxConns

\* requests as clients format them
RECURSIVE JoinLines(_)
JoinLines(ls) == IF ls = <<>> THEN "" ELSE Head(ls) \o CRLF \o JoinLines(Tail(ls))

GetRequest(target, hdrs) == "GET " \o target \o " HTTP/1.1\r\n" \o JoinLines(hdrs) \o CRLF
GetFile(name) == GetRequest("/files/" \o name, <<>>)
PostFile(name, body) ==
    "POST /files/" \o name \o " HTTP/1.1\r\n"
        \o "Content-Length: " \o Itoa(Len(body)) \o CRLF \o CRLF \o body

FileNames == {"a"}
UploadBodies == {"hi", "yo!"}

RECURSIVE Repeat(_, _)
Repeat(s, n) == IF n = 0 THEN "" ELSE s \o Repeat(s, n - 1)

\* a request longer than the size cap
LongMessage == PostFile("a", Repeat("0123456789", 20))

\* a request of exactly as many bytes as the read buffer holds
ExactMessage ==
    GetRequest("/echo/" \o Repeat("x", BufLen - Len(GetRequest("/echo/", <<>>))), <<>>)

ClientMessages ==
    {GetFile(n) : n \in FileNames}
    \cup {PostFile(n, b) : n \in FileNames, b \in UploadBodies}
    \cup {GetRequest("/", <<>>),
          GetRequest("/echo/hi", <<"Accept-Encoding: br">>),
          GetRequest("/echo", <<>>),
          GetRequest("/", <<"Host">>),
          "POST /files/a HTTP/1.1\r\n\r\nhi",
          "PUT / HTTP/1.1\r\n\r\n",
          "BAD\r\n\r\n",
          "",
          ExactMessage,
          LongMessage}

FreeConn ==
    [st |-> "free", msg |-> "", sent |-> 0, got |-> 0, end |-> "", fault |-> "none",
     built |-> ZeroResponse, enc |-> ZeroResponse, err |-> "", response |-> "", written |-> ""]

\* parseHTTPRequest has not been called
Pending == [outcome |-> "pending", req |-> ZeroRequest]

ParserIdle == pin = <<>> /\ pmsg = "" /\ pres = Pending

ServerIdle ==
    /\ alive = "running"
    /\ conns = [c \in Conns |-> FreeConn]
    /\ files = <<>>
    /\ puts = <<>>
    /\ accepts = 0

RouteIdle == rreq = ZeroRequest /\ rout = [outcome |-> "pending"]

CodecIdle == heap = <<>> /\ calls = <<>>

Init ==
    /\ ParserIdle
    /\ RouteIdle
    /\ CodecIdle
    /\ ServerIdle

\* conn.Close(), the deferred call of handleConnection: the worker is gone,
\* what stays is how the connection ended and what was written to it
Closed(conn, why) ==
    [FreeConn EXCEPT !.st = "closed", !.end = why, !.written = conn.written]

\* the process ends: the kernel closes every open connection
ProcessEnds(cs, c, why) ==
    [d \in Conns |->
        IF cs[d].st \in {"free", "closed"} THEN cs[d]
        ELSE Closed(cs[d], IF d = c THEN why ELSE "process ended")]

\* l.Accept() returns a connection; go handleConnection(conn).  The slots
\* are interchangeable: a new connection takes the lowest one not in use.
Accept(c, m) ==
    /\ alive = "running"
    /\ accepts < MaxAccepts
    /\ conns[c].st \in {"free", "closed"}
    /\ \A d \in 1..(c - 1) : conns[d].st \notin {"free", "closed"}
    /\ conns' = [conns EXCEPT ![c] = [FreeConn EXCEPT !.st = "reading", !.msg = m]]
    /\ accepts' = accepts + 1
    /\ UNCHANGED <<alive, files, puts>>

\* l.Accept() fails: listen returns 1 and main exits
AcceptError ==
    /\ alive = "running"
    /\ alive' = "exited"
    /\ conns' = ProcessEnds(conns, 0, "process ended")
    /\ UNCHANGED <<files, puts, accepts>>

\* the transport delivers the next k bytes of the client's request: the first
\* SegLen bytes ahead of the rest, or all that is left
SendSizes(c) ==
    {Len(conns[c].msg) - conns[c].sent} \cup (IF conns[c].sent = 0 THEN {SegLen} ELSE {})

ClientSend(c, k) ==
    /\ conns[c].st = "reading"
    /\ k > 0
    /\ conns[c].sent + k <= Len(conns[c].msg)
    /\ conns' = [conns EXCEPT ![c].sent = @ + k]
    /\ UNCHANGED <<alive, files, puts, accepts>>

\* one conn.Read(buffer) of readFromConnection that returns bytes
Read(c) ==
    LET n   == IF conns[c].sent - conns[c].got < BufLen
               THEN conns[c].sent - conns[c].got ELSE BufLen
        got == conns[c].got + n
    IN  /\ alive = "running"
        /\ conns[c].st = "reading"
        /\ n > 0
        /\ conns' = [conns EXCEPT ![c] =
              IF got > maxMessageSize THEN Closed(@, "read error")
              ELSE IF n < BufLen THEN [@ EXCEPT !.got = got, !.st = "handle"]
              ELSE [@ EXCEPT !.got = got]]
        /\ UNCHANGED <<alive, files, puts, accepts>>

\* conn.Read fails: the read deadline passed, or the client hung up
ReadError(c) ==
    /\ alive = "running"
    /\ conns[c].st = "reading"
    /\ conns' = [conns EXCEPT ![c] = Closed(@, "read error")]
    /\ UNCHANGED <<alive, files, puts, accepts>>

\* the upload a request is, if it is one: <<name, body>>
Uploads(m) == {nb \in FileNames \X UploadBodies : m = PostFile(nb[1], nb[2])}

\* the switch on req.Method in handleConnection
Dispatch(req, fs, fault) ==
    IF req.Method = "GET" THEN handleGETRequest(req, fs, fault)
    ELSE IF req.Method = "POST" THEN handlePOSTRequest(req, fs, fault)
    ELSE [outcome |-> "ok", built |-> ZeroResponse,
          enc |-> [recv |-> ZeroResponse, sent |-> ZeroResponse,
                   bytes |-> {getStatusLine(501) \o CRLF}, err |-> ""],
          files |-> fs, met |-> "none"]

\* an uncaught panic in a goroutine ends the process
Panic(c) ==
    /\ alive' = "panicked"
    /\ conns' = ProcessEnds(conns, c, "panic")
    /\ UNCHANGED <<files, puts>>

\* the last acknowledged uploads after a handler that returned h
PutsAfter(c, h) ==
    IF h.built.ResponseCode # 201 THEN puts
    ELSE IF Uploads(conns[c].msg) # {}
    THEN LET nb == CHOOSE x \in Uploads(conns[c].msg) : TRUE
         IN  (nb[1] :> Some(nb[2])) @@ puts
    ELSE [n \in DOMAIN h.files |->
            IF n \in DOMAIN files /\ files[n] = h.files[n] /\ n \in DOMAIN puts
            THEN puts[n] ELSE NilBody]

\* the handler returned h (or panicked): the response is ready to be written
Respond(c, h) ==
    IF h.outcome = "panic" THEN Panic(c)
    ELSE /\ \E bytes \in h.enc.bytes :
               conns' = [conns EXCEPT ![c] =
                   [@ EXCEPT !.st = "respond", !.fault = h.met, !.built = h.built,
                             !.enc = h.enc.sent, !.err = h.enc.err, !.response = bytes]]
         /\ files' = h.files
         /\ puts' = PutsAfter(c, h)
         /\ UNCHANGED alive

\* parseHTTPRequest over what a client can have sent when the read loop ends
Received == UNION {{SubSeq(m, 1, k) : k \in 0..Len(m)} : m \in ClientMessages}

ParsedTable == {<<m, parseHTTPRequest(m)>> : m \in Received}

Parsed(m) == (CHOOSE p \in ParsedTable : p[1] = m)[2]

\* parseHTTPRequest and the handler of handleConnection, up to the write
Handle(c) ==
    /\ alive = "running"
    /\ conns[c].st = "handle"
    /\ UNCHANGED accepts
    /\ \E p \in {Parsed(SubSeq(conns[c].msg, 1, conns[c].got))} :
           IF p.outcome = "panic"
           THEN Panic(c)
           ELSE IF p.outcome = "error"
           THEN /\ conns' = [conns EXCEPT ![c] = Closed(@, "parse error")]
                /\ UNCHANGED <<alive, files, puts>>
           ELSE \E fault \in FsFaults : \E h \in {Dispatch(p.req, files, fault)} : Respond(c, h)

\* a write that stops one byte short
WriteShort(c, ok) ==
    /\ alive = "running"
    /\ conns[c].st = "respond"
    /\ conns' = [conns EXCEPT ![c] =
          IF ok THEN Closed([@ EXCEPT !.written =
                                SubSeq(conns[c].response, 1, Len(conns[c].response) - 1)],
                            "responded")
          ELSE Closed(@, "write error")]
    /\ UNCHANGED <<alive, files, puts, accepts>>

\* writeToConnection, then the deferred conn.Close()
Write(c, ok) ==
    /\ alive = "running"
    /\ conns[c].st = "respond"
    /\ conns' = [conns EXCEPT ![c] =
          IF ok THEN Closed([@ EXCEPT !.written = @ \o conns[c].response], "responded")
          ELSE Closed(@, "write error")]
    /\ UNCHANGED <<alive, files, puts, accepts>>

Worker(c) ==
    \/ Read(c)
    \/ ReadError(c)
    \/ Handle(c)
    \/ \E ok \in BOOLEAN : Write(c, ok)

ServerNext ==
    \/ \E c \in Conns, m \in ClientMessages : Accept(c, m)
    \/ AcceptError
    \/ \E c \in Conns : \E k \in SendSizes(c) : ClientSend(c, k)
    \/ \E c \in Conns : Worker(c)

Next == ServerNext /\ UNCHANGED <<parserVars, routeVars, codecVars>>

Spec == Init /\ [][Next]_vars

\* the goroutine scheduler runs every worker, and the read deadline ends
\* every wait in conn.Read
SpecLive ==
    Spec /\ \A c \in Conns : WF_vars(Worker(c) /\ UNCHANGED <<parserVars, routeVars, codecVars>>)

(***************************************************************************)
(* Parser harness: a client assembles a buffer from a request line, header *)
(* lines, the blank line and the bytes after it; parseHTTPRequest is       *)
(* applied to the buffer.                                                  *)
(***************************************************************************)
MethodTargetVersion == {"GET / HTTP/1.1", "POST /files/a HTTP/1.1"}
RequestLines == MethodTargetVersion \cup {"GET /"}

\* header lines without a declared length
PlainHeaderLines == {"Host: h", "X-Trace: 1", "Accept-Encoding: gzip"}
\* a declared length of n bytes
LengthLines(n) == {"Content-Length: " \o Itoa(n), "content-length: " \o Itoa(n)}
\* a length that is not a number, or negative
InvalidLengthLines == {"Content-Length: x", "Content-Length: -1", "Content-Length: -2"}

HeaderLines ==
    PlainHeaderLines \cup InvalidLengthLines
    \cup {"content-length: 0", "Content-Length: 2", "Content-Length: 5"}
    \cup {"Content-Length: +2", "User-Agent"}

Tails == {"", "h", "hi", "hi\r\nyo", "hello!", "\r\nhi"}

RECURSIVE SeqsUpTo(_, _)
SeqsUpTo(S, n) ==
    IF n = 0 THEN {<<>>}
    ELSE SeqsUpTo(S, n - 1) \cup {Append(q, x) : q \in {p \in SeqsUpTo(S, n - 1) : Len(p) = n - 1}, x \in S}

ParserInputs ==
    [line : RequestLines, hdrs : SeqsUpTo(HeaderLines, MaxHeaders),
     blank : BOOLEAN, tail : Tails]

\* the client's formatting of a request
BuildMessage(in) ==
    in.line \o CRLF \o JoinLines(in.hdrs) \o (IF in.blank THEN CRLF ELSE "") \o in.tail

ParseInit ==
    /\ ServerIdle
    /\ RouteIdle
    /\ CodecIdle
    /\ pin \in ParserInputs
    /\ pmsg = BuildMessage(pin)
    /\ pres = Pending

ParseCall ==
    /\ pres = Pending
    /\ pres' = parseHTTPRequest(pmsg)
    /\ UNCHANGED <<pin, pmsg>>
    /\ UNCHANGED <<routeVars, codecVars, serverVars>>

ParseNext == ParseCall

SpecParse == ParseInit /\ [][ParseNext]_vars

(***************************************************************************)
(* Dispatcher harness: a request that parsed is handed to the handler of   *)
(* its method, with some served directory and some file-system behaviour.  *)
(***************************************************************************)
RouteTargets ==
    {"/", "/echo/hi", "/echo/a/b", "/echo/", "/echo", "/user-agent", "/user-agent/x",
     "/files/a", "/files/b", "/files", "/other", "/other/x", "other", ""}

RouteHeaders ==
    {<<>>, <<"User-Agent: curl/8">>, <<"Accept-Encoding: gzip">>, <<"Accept-Encoding: br">>,
     <<"User-Agent: curl/8", "Accept-Encoding: gzip">>}

RouteMessages ==
    {m \o " " \o t \o " HTTP/1.1\r\n" \o JoinLines(h) \o CRLF :
        m \in {"GET", "POST"}, t \in RouteTargets, h \in RouteHeaders}

RouteInit ==
    /\ ParserIdle
    /\ CodecIdle
    /\ alive = "running"
    /\ conns = [c \in Conns |-> FreeConn]
    /\ puts = <<>>
    /\ accepts = 0
    /\ files \in {<<>>, "a" :> "hi"}
    /\ \E m \in RouteMessages : \E p \in {parseHTTPRequest(m)} :
           p.outcome = "ok" /\ rreq = p.req
    /\ rout = [outcome |-> "pending"]

\* what is seen of a handler call: whether it returned, the response object
\* as built and as serialized, the bytes, err and the directory afterwards
Outcome(h, bytes) ==
    [outcome |-> h.outcome, built |-> h.built, enc |-> h.enc.sent, err |-> h.enc.err,
     response |-> bytes, files |-> h.files, met |-> h.met]

RouteGET(fault) ==
    /\ rout.outcome = "pending"
    /\ rreq.Method = "GET"
    /\ \E h \in {handleGETRequest(rreq, files, fault)} : \E bytes \in h.enc.bytes :
           rout' = Outcome(h, bytes)
    /\ UNCHANGED <<rreq, parserVars, codecVars, serverVars>>

RoutePOST(fault) ==
    /\ rout.outcome = "pending"
    /\ rreq.Method = "POST"
    /\ \E h \in {handlePOSTRequest(rreq, files, fault)} : \E bytes \in h.enc.bytes :
           rout' = Outcome(h, bytes)
    /\ UNCHANGED <<rreq, parserVars, codecVars, serverVars>>

RouteNext ==
    \/ \E fault \in FsFaults : RouteGET(fault)
    \/ \E fault \in FsFaults : RoutePOST(fault)

SpecRoute == RouteInit /\ [][RouteNext]_vars

(***************************************************************************)
(* Encoder harness: callers run ByteResponse on one shared httpResponse,   *)
(* heap[0].  A caller of ByteResponse(true) owns the response while its    *)
(* call runs; calls of ByteResponse(false) run concurrently, statement by  *)
(* statement.  heap[k] is the object SafeEncode allocates for caller k.    *)
(***************************************************************************)
Callers == 1..MaxCallers

Responses ==
    [ResponseCode : {200, 404, 999}, ContentType : {"", "text/plain"},
     EncodingMethod : {"", "gzip", "br"}, Encoded : BOOLEAN,
     Body : {NilBody, Some(""), Some("hi")}]

IdleCall ==
    [pc |-> "idle", mutate |-> FALSE, arg |-> ZeroResponse, recv |-> ZeroResponse,
     this |-> 0, err |-> "", out |-> ""]

CodecInit ==
    /\ ParserIdle
    /\ RouteIdle
    /\ ServerIdle
    /\ \E r \in Responses : heap = [a \in {0} \cup Callers |-> IF a = 0 THEN r ELSE ZeroResponse]
    /\ calls = [k \in Callers |-> IdleCall]

\* SafeEncode working on its receiver
receiverObject(k) == 0

\* the object SafeEncode works on for caller k: newRespObject, a fresh one
newRespObject(k) == k

\* resp.ByteResponse(mutate) is called.  With mutate the callee works on the
\* receiver; SafeEncode has a value receiver, which copies *resp.
Call(k, mutate) ==
    /\ calls[k].pc = "idle"
    /\ \A j \in Callers \ {k} : calls[j].pc = "idle" \/ (~mutate /\ ~calls[j].mutate)
    /\ calls' = [calls EXCEPT ![k] =
          [IdleCall EXCEPT !.pc = IF mutate THEN "encode" ELSE "copy", !.mutate = mutate,
                           !.arg = heap[0], !.recv = heap[0], !.this = 0]]
    /\ UNCHANGED heap

\* SafeEncode: the deep copy into the new object
Copy(k) ==
    /\ calls[k].pc = "copy"
    /\ heap' = [heap EXCEPT ![newRespObject(k)] = DeepCopy(calls[k].recv)]
    /\ calls' = [calls EXCEPT ![k].pc = "encode", ![k].this = newRespObject(k)]

\* Encode on the object the call works on
EncodeStep(k) ==
    /\ calls[k].pc = "encode"
    /\ heap' = [heap EXCEPT ![calls[k].this] = Encode(@).resp]
    /\ calls' = [calls EXCEPT ![k].pc = "assemble", ![k].err = Encode(heap[calls[k].this]).err]

\* the status line, the headers, the blank line and the body are put together
AssembleStep(k) ==
    /\ calls[k].pc = "assemble"
    /\ \E bytes \in Assemble(heap[calls[k].this]) :
           calls' = [calls EXCEPT ![k].pc = "done", ![k].out = bytes]
    /\ UNCHANGED heap

\* the caller takes the result; it may call again
Return(k) ==
    /\ calls[k].pc = "done"
    /\ calls' = [calls EXCEPT ![k] = IdleCall]
    /\ UNCHANGED heap

CodecNext ==
    /\ \E k \in Callers :
          \/ \E mutate \in BOOLEAN : Call(k, mutate)
          \/ Copy(k)
          \/ EncodeStep(k)
          \/ AssembleStep(k)
          \/ Return(k)
    /\ UNCHANGED <<parserVars, routeVars, serverVars>>

SpecCodec == CodecInit /\ [][CodecNext]_vars

(***************************************************************************)
(* Reading a response off the wire, as a client does                       *)
(***************************************************************************)
RECURSIVE Split(_, _)
Split(s, sep) ==
    The({IF i = 0 THEN <<s>>
         ELSE <<SubSeq(s, 1, i - 1)>> \o Split(SubSeq(s, i + Len(sep), Len(s)), sep) :
         i \in {Index(s, sep)}})

HasPrefix(s, prefix) == Len(s) >= Len(prefix) /\ SubSeq(s, 1, Len(prefix)) = prefix

\* the status line and the header lines end at the first blank line
WireHeadEnd(w) == Index(w, CRLF \o CRLF)
WireLines(w) == Split(SubSeq(w, 1, WireHeadEnd(w) - 1), CRLF)
WireStatusLine(w) == WireLines(w)[1]
WireHeaders(w) == {WireLines(w)[i] : i \in 2..Len(WireLines(w))}
WireBody(w) == SubSeq(w, WireHeadEnd(w) + 4, Len(w))
\* the values sent for the header name
WireValues(w, name) ==
    {SubSeq(h, Len(name) + 3, Len(h)) : h \in {l \in WireHeaders(w) : HasPrefix(l, name \o ": ")}}

(***************************************************************************)
(* Properties of the parser                                                *)
(***************************************************************************)

ProperLengthLines == UNION {LengthLines(n) : n \in 0..MaxDeclared}

\* a request line of three parts, header lines of the form "Name: value"
\* taken from hs, and the blank line
WellFormed(in, hs) ==
    /\ in.line \in MethodTargetVersion
    /\ in.blank
    /\ \A i \in DOMAIN in.hdrs : in.hdrs[i] \in hs

LengthAt(in) == {i \in DOMAIN in.hdrs : in.hdrs[i] \in ProperLengthLines}

\* the length the request declares (its last Content-Length header)
DeclaredLength(in) ==
    CHOOSE n \in 0..MaxDeclared :
        \E i \in LengthAt(in) : in.hdrs[i] \in LengthLines(n) /\ \A j \in LengthAt(in) : j <= i

Framed(in) == WellFormed(in, PlainHeaderLines \cup ProperLengthLines) /\ LengthAt(in) # {}

C7_SentinelWhenAbsentOrInvalid ==
    (pres.outcome # "pending" /\ WellFormed(pin, PlainHeaderLines \cup InvalidLengthLines)) =>
        pres.outcome = "ok" /\ pres.req.ContentLength = -1

\* the first line of the bytes after the blank line
FirstLineOf(tail) ==
    CASE tail = "hi\r\nyo" -> "hi"
      [] tail = "\r\nhi"   -> ""
      [] OTHER             -> tail

\* C8: without a Content-Length header the request parses, and its body is
\* the line after the blank line, or no body when nothing follows.
C8_BestEffortBodyLine ==
    (pres.outcome # "pending" /\ WellFormed(pin, PlainHeaderLines)) =>
        /\ pres.outcome = "ok"
        /\ pres.req.Body = IF pin.tail = "" THEN NilBody ELSE Some(FirstLineOf(pin.tail))

(***************************************************************************)
(* Properties of the dispatcher                                            *)
(***************************************************************************)
StatusLineOf(code) == statusLines[code]

\* C4: every parsed GET request gets a response from handleGETRequest: 200
\* without a body for "/", 200 text/plain with the text for "/echo/<text>",
\* 200 text/plain with the User-Agent value for "/user-agent", the file
\* store's outcome for "/files/<name>", and 404 for every other target of at
\* least two "/"-separated segments.
C4_GetRouteTable ==
    (rout.outcome # "pending" /\ rreq.Method = "GET") =>
        /\ rout.outcome = "ok"
        /\ CASE rreq.Target = "/" ->
                  rout.response = StatusLineOf(200) \o CRLF \o CRLF
              [] HasPrefix(rreq.Target, "/echo/") ->
                  /\ WireStatusLine(rout.response) = StatusLineOf(200)
                  /\ WireBody(rout.response) = SubSeq(rreq.Target, 7, Len(rreq.Target))
                  /\ WireValues(rout.response, "Content-Type") = {"text/plain"}
              [] rreq.Target = "/user-agent" ->
                  /\ WireStatusLine(rout.response) = StatusLineOf(200)
                  /\ WireBody(rout.response) = rreq.UserAgent
                  /\ WireValues(rout.response, "Content-Type") = {"text/plain"}
              [] HasPrefix(rreq.Target, "/files/") ->
                  WireStatusLine(rout.response) \in {StatusLineOf(200), StatusLineOf(404), StatusLineOf(500)}
              [] Len(Split(rreq.Target, "/")) >= 2 ->
                  WireStatusLine(rout.response) = StatusLineOf(404)
              [] OTHER -> TRUE

(***************************************************************************)
(* Properties of the encoder                                               *)
(***************************************************************************)
\* C6: for both values of mutate, a response whose body is nil is serialized
\* as the status line and the blank line only; a response with a body, also
\* an empty one, carries Content-Length with the body's length, Content-Type
\* exactly when it is non-empty and Content-Encoding exactly when encoded.
C6_BodyHeaders ==
    \A k \in DOMAIN calls :
        calls[k].pc = "done" =>
            IF calls[k].arg.Body = NilBody
            THEN /\ WireHeaders(calls[k].out) = {}
                 /\ WireBody(calls[k].out) = ""
            ELSE /\ WireValues(calls[k].out, "Content-Length")
                        = {Itoa(Len(Bytes(calls[k].arg.Body)))}
                 /\ WireValues(calls[k].out, "Content-Type")
                        = (IF calls[k].arg.ContentType = "" THEN {} ELSE {calls[k].arg.ContentType})
                 /\ (WireValues(calls[k].out, "Content-Encoding") # {})
                        <=> heap[calls[k].this].Encoded

\* what a client reads in a response: the status line, the set of header
\* lines and the body
WireView(w) ==
    The({[status |-> ls[1], headers |-> {ls[i] : i \in 2..Len(ls)}, body |-> WireBody(w)] :
         ls \in {WireLines(w)}})

\* a statement of a ByteResponse(false) call of caller k
NonMutatingStep(k) == calls'[k] # calls[k] /\ ~calls[k].mutate /\ ~calls'[k].mutate

\* what a ByteResponse(false) call returned is what a call alone returns
ReturnsAsAlone ==
    \A k \in DOMAIN calls :
        (calls[k].pc = "done" /\ ~calls[k].mutate) =>
            \E alone \in {ByteResponse(heap[0], FALSE)} :
                /\ calls[k].err = alone.err
                /\ \E mine \in {WireView(calls[k].out)} :
                       \E w \in alone.bytes : WireView(w) = mine

\* C10: ByteResponse(false) calls that run concurrently on one response never
\* change a field of it, and each returns the status line, header set and
\* body that a call running alone returns.
C10_RaceFreeNonMutating ==
    /\ []ReturnsAsAlone
    /\ [][\A k \in DOMAIN calls : NonMutatingStep(k) => heap'[0] = heap[0]]_vars

\* two ByteResponse(false) calls in flight on a response that asks for gzip:
\* one has returned, the other has encoded its copy, the original is as it was
C10_Witness ==
    /\ calls # <<>>
    /\ calls[1].pc = "done" /\ ~calls[1].mutate
    /\ calls[2].pc = "assemble" /\ ~calls[2].mutate
    /\ heap[0].EncodingMethod = "gzip" /\ ~heap[0].Encoded /\ heap[0].Body = Some("hi")
    /\ heap[1].Encoded /\ heap[2].Encoded
    /\ WireValues(calls[1].out, "Content-Encoding") = {"gzip"}

\* C11: two ByteResponse calls on responses with equal fields return the
\* same bytes; the body headers come in the same order on every call.
C11_DeterministicSerialization ==
    \A j, k \in DOMAIN calls :
        (/\ calls[j].pc = "done" /\ calls[k].pc = "done"
         /\ calls[j].arg = calls[k].arg /\ calls[j].mutate = calls[k].mutate) =>
            calls[j].out = calls[k].out

KnownLines ==
    {"HTTP/1.1 200 OK", "HTTP/1.1 201 Created", "HTTP/1.1 400 Bad Request",
     "HTTP/1.1 404 Not Found", "HTTP/1.1 500 Internal Server Error",
     "HTTP/1.1 501 Not Implemented"}

\* the line the status code stands for
ExpectedLine(code) ==
    CASE code = 200 -> "HTTP/1.1 200 OK"
      [] code = 201 -> "HTTP/1.1 201 Created"
      [] code = 400 -> "HTTP/1.1 400 Bad Request"
      [] code = 404 -> "HTTP/1.1 404 Not Found"
      [] code = 501 -> "HTTP/1.1 501 Not Implemented"
      [] OTHER      -> "HTTP/1.1 500 Internal Server Error"

Codes == -1..MaxCode

FallbackForEveryCode ==
    \A code \in Codes :
        /\ getStatusLine(code) = ExpectedLine(code) \o CRLF
        /\ ExpectedLine(code) \in KnownLines

\* C12: getStatusLine returns the table's line for the six codes of the table
\* and the 500 line for every other code; every serialized response begins
\* with the line of its code, one of the six known lines, and CRLF.
C12_StatusLineFallback ==
    /\ FallbackForEveryCode
    /\ \A k \in DOMAIN calls :
          calls[k].pc = "done" =>
              /\ HasPrefix(calls[k].out, ExpectedLine(calls[k].arg.ResponseCode) \o CRLF)
              /\ WireStatusLine(calls[k].out) \in KnownLines

\* a response with the code 999 was serialized under the 500 line
C12_Witness ==
    \E k \in DOMAIN calls :
        /\ calls[k].pc = "done"
        /\ calls[k].arg.ResponseCode = 999
        /\ HasPrefix(calls[k].out, "HTTP/1.1 500 Internal Server Error\r\n")

(***************************************************************************)
(* Properties of the server                                                *)
(***************************************************************************)
\* C2: whatever bytes a client sends, the process keeps running.
C2_FaultIsolation == alive # "panicked"

\* one whole response: a known status line, the headers, the blank line and
\* a body of the announced length (none when no length is announced)
WholeResponse(w) ==
    /\ WireHeadEnd(w) > 0
    /\ WireStatusLine(w) \in {statusLines[code] : code \in DOMAIN statusLines}
    /\ IF WireValues(w, "Content-Length") = {} THEN WireBody(w) = ""
       ELSE WireValues(w, "Content-Length") = {Itoa(Len(WireBody(w)))}

AllOrNothing ==
    \A c \in Conns :
        /\ conns[c].written # "" =>
              conns[c].st = "closed" /\ conns[c].end = "responded" /\ WholeResponse(conns[c].written)
        /\ conns[c].end \in {"read error", "parse error"} => conns[c].written = ""

Open(c) == conns[c].st \in {"reading", "handle", "respond"}

Unsupported(c) ==
    /\ conns[c].st = "respond"
    /\ conns[c].built.Body # NilBody
    /\ conns[c].built.EncodingMethod \notin {"", "gzip"}

EchoBr == GetRequest("/echo/hi", <<"Accept-Encoding: br">>)

WellFormedRequests ==
    {GetFile(n) : n \in FileNames}
    \cup {PostFile(n, b) : n \in FileNames, b \in UploadBodies}
    \cup {GetRequest("/", <<>>), EchoBr, ExactMessage}

\* readFromConnection returned (the worker parses, or has a response ready)
ReadReturned(c) == conns[c].st \in {"handle", "respond"}

\* every byte of the request has been read and the read loop goes on
ReadAllAndWaiting(c) ==
    /\ conns[c].st = "reading"
    /\ conns[c].got = Len(conns[c].msg)

\* C13: however the transport splits a well-formed request into reads,
\* readFromConnection returns the complete message, so that the handler
\* answers what it answers to the request read at once: the read loop ends
\* with nothing less than the whole request, and it does not fail once the
\* whole request has been read.
C13_ReadSegmentationIndependence ==
    /\ [](\A c \in Conns :
            (conns[c].msg \in WellFormedRequests /\ ReadReturned(c)) =>
                conns[c].got = Len(conns[c].msg))
    /\ [][\A c \in Conns :
            (conns[c].msg \in WellFormedRequests /\ ReadAllAndWaiting(c)) =>
                conns'[c].end # "read error"]_vars

====
